---- MODULE Spec2Model ----
(***************************************************************************)
(* A model of utime/bin/train.py: the "ut train" entry point.              *)
(* entry_func parses the arguments, calls run(args) inside try/finally and *)
(* closes the open HDF5 files in the finally block.  run() is a straight   *)
(* line of calls into collaborators; each call is one action, the program  *)
(* counter pc is the position in run(), and log records every call that    *)
(* was made, in order.                                                     *)
(***************************************************************************)
EXTENDS Integers, Sequences, FiniteSets, TLC

\* ------------------------------------------------------------------ bounds
\* Integer command-line values are drawn from 0..MaxInt.
MaxInt == 1
\* Number of per-dataset hyperparameter files of the project.
NumDatasets == 2
\* GPUs the platform can make visible: 0..MaxGpus.
MaxGpus == 1

\* ------------------------------------------------------------ value encoding
\* Python's None is the empty tuple, a present value v is <<v>>.
None == <<>>
Some(v) == <<v>>
IsNone(o) == o = <<>>
Val(o) == o[1]

\* An exception: its Python class (or the error name the collaborator's
\* contract gives it), the stage of run() that raised it, and the
\* command-line flag it is about ("None" if it is about no flag).
NoError == [cls |-> "None", stage |-> "None", flag |-> "None"]

\* The queue type strings a user may pass; "bogus" stands for any
\* unrecognised tag.
QueueTypeArgs == {"eager", "lazy", "limitation", "bogus"}
ValidQueueTypes == {"eager", "lazy", "limitation"}

\* The channel lists a user may pass with --channels: absent, empty, one name.
ChannelArgs == {None, Some(<<>>), Some(<<"C3-A2">>)}

\* The two hyperparameter files of a project directory.
HParamsPath == "hparams.yaml"
PreProcessedHParamsPath == "pre_proc_hparams.yaml"
YamlPaths == {HParamsPath, PreProcessedHParamsPath}

\* The content of a hyperparameter file as "ut init" leaves it: the number
\* of epochs is set, the build group has no inferred values yet.
FileEpochs == MaxInt + 1
InitialTree == [n_epochs |-> Some(FileEpochs),
                n_classes |-> None,
                batch_shape |-> None]
InitialDatasetTree == [select_channels |-> Some(<<"EEG">>),
                       channel_sampling_groups |-> TRUE]

\* What the training sequence infers from the data.
SeqClasses == {2, 5}
SeqBatchShape == <<64, 35>>

VARIABLES
    args,       \* the parsed command line (Namespace), fixed for the run
    pc,         \* position in entry_func / run
    err,        \* the exception in flight (NoError if none)
    log,        \* the calls made so far, in order
    fs,         \* the project directory on disk
    fs0,        \* the project directory as it was when the process started
    loc,        \* local variables of run()
    closed,     \* number of calls of tables.file._open_files.close_all()
    outcome     \* what the caller of entry_func sees: "running", "success", "failure"

vars == <<args, pc, err, log, fs, fs0, loc, closed, outcome>>

\* ------------------------------------------------------------------ argparser
Args ==
    [continue_training : BOOLEAN,
     initialize_from : {None, Some("weights.h5")},
     overwrite : BOOLEAN,
     preprocessed : BOOLEAN,
     max_train_samples_per_epoch : 0..MaxInt,
     n_epochs : {None} \cup {Some(n) : n \in 0..MaxInt},
     channels : ChannelArgs,
     train_queue_type : QueueTypeArgs,
     val_queue_type : QueueTypeArgs,
     max_loaded_per_dataset : 0..MaxInt]

\* Python truthiness of a string option (args.initialize_from) and of a
\* list option (args.channels): None and the empty value are false.
TruthyStr(o) == ~IsNone(o) /\ Val(o) # ""
TruthyList(o) == ~IsNone(o) /\ Val(o) # <<>>

\* ------------------------------------------------------------ project on disk
\* model_dir_empty / checkpoint: the 'model' folder; a checkpoint is a file
\* in it, so a folder holding a checkpoint is not empty.
\* final_weights: the final weights file as written by this run.
\* log_file: "none" until this run opens it, then the mode it was opened in.
\* yaml: the hyperparameter files.  ds: the per-dataset files.
ProjectStates ==
    {[model_dir_empty |-> m[1], checkpoint |-> m[2], final_weights |-> FALSE,
      log_file |-> "none",
      yaml |-> [p \in YamlPaths |-> InitialTree],
      ds |-> [i \in 1..NumDatasets |-> InitialDatasetTree]]
        : m \in {<<TRUE, FALSE>>, <<FALSE, FALSE>>, <<FALSE, TRUE>>}}

InitialLocals ==
    [model_dir_is_empty |-> FALSE,
     train_queue_type |-> "unset",
     val_queue_type |-> "unset",
     dataset_func |-> "unset",
     yaml_path |-> "unset",
     hparams |-> InitialTree,
     ds_hparams |-> [i \in 1..NumDatasets |-> InitialDatasetTree],
     ds_i |-> 0,
     train_strategy |-> "unset",
     val_strategy |-> "unset",
     val_datasets |-> FALSE,
     train_queues |-> None,
     val_queues |-> None,
     train_seq |-> None,
     parameter_file |-> None,
     model |-> "none",
     fit_done |-> FALSE]

Init ==
    /\ args \in Args
    /\ fs \in ProjectStates
    /\ fs0 = fs
    /\ pc = "entry_func"
    /\ err = NoError
    /\ log = <<>>
    /\ loc = InitialLocals
    /\ closed = 0
    /\ outcome = "running"

\* ------------------------------------------------------------------ helpers
Called(e) == \E i \in 1..Len(log) : log[i] = e
Count(e) == Cardinality({i \in 1..Len(log) : log[i] = e})
\* every occurrence of a is before every occurrence of b
Before(a, b) == \A i, j \in 1..Len(log) : (log[i] = a /\ log[j] = b) => i < j

\* Variant: the exception leaves entry_func without passing the finally block.
Raise_SkipsFinally(cls, stage, flag) ==
    /\ pc' = "exit"
    /\ err' = [cls |-> cls, stage |-> stage, flag |-> flag]

\* An exception leaves run(); control goes to the finally block of entry_func.
Raise(cls, stage, flag) ==
    /\ pc' = "finally"
    /\ err' = [cls |-> cls, stage |-> stage, flag |-> flag]

Goto(next) ==
    /\ pc' = next
    /\ err' = err

Log(e) == log' = Append(log, e)

\* --------------------------------------------------------------- entry_func
\* parse_args succeeded; run(args) is entered inside the try block.
EntryFunc ==
    /\ pc = "entry_func"
    /\ Goto("assert_args")
    /\ Log("run")
    /\ UNCHANGED <<args, fs, fs0, loc, closed, outcome>>

\* ---------------------------------------------------------------- assert_args
\* Variant: the check of the two conflicting flags is missing.
assert_args_NoConflictCheck(a) ==
    IF a.max_train_samples_per_epoch < 1
    THEN "max_train_samples_per_epoch"
    ELSE IF ~IsNone(a.n_epochs) /\ Val(a.n_epochs) < 1
    THEN "n_epochs"
    ELSE "None"

\* Variant: the bound on n_epochs is checked with < 0 instead of < 1.
assert_args_EpochsOffByOne(a) ==
    IF a.continue_training /\ TruthyStr(a.initialize_from)
    THEN "initialize_from"
    ELSE IF a.max_train_samples_per_epoch < 1
    THEN "max_train_samples_per_epoch"
    ELSE IF ~IsNone(a.n_epochs) /\ Val(a.n_epochs) < 0
    THEN "n_epochs"
    ELSE "None"

\* The flag assert_args complains about, "None" when it returns normally.
assert_args(a) ==
    IF a.continue_training /\ TruthyStr(a.initialize_from)
    THEN "initialize_from"
    ELSE IF a.max_train_samples_per_epoch < 1
    THEN "max_train_samples_per_epoch"
    ELSE IF ~IsNone(a.n_epochs) /\ Val(a.n_epochs) < 1
    THEN "n_epochs"
    ELSE "None"

AssertArgs ==
    /\ pc = "assert_args"
    /\ IF assert_args(args) # "None"
       THEN Raise("ValueError", "assert_args", assert_args(args))
       ELSE Goto("assert_project_folder")
    /\ Log("assert_args")
    /\ UNCHANGED <<args, fs, fs0, loc, closed, outcome>>

\* ------------------------------------------------------ run: project folder
\* assert_project_folder(project_dir): raises when the folder is no U-Time
\* project, else tells whether the 'model' folder is empty.
AssertProjectFolder ==
    /\ pc = "assert_project_folder"
    /\ Log("assert_project_folder")
    /\ \/ /\ Raise("ProjectNotInitialized", "assert_project_folder", "None")
          /\ loc' = loc
       \/ /\ Goto("check_session")
          /\ loc' = [loc EXCEPT !.model_dir_is_empty = fs.model_dir_empty]
    /\ UNCHANGED <<args, fs, fs0, closed, outcome>>

\* Variant: --continue_training is not looked at.
ShouldPurge_IgnoresContinue(a) == a.overwrite

\* if args.overwrite and not args.continue_training
ShouldPurge(a) == a.overwrite /\ ~a.continue_training

\* Variant: the emptiness test is inverted.
StaleModelDir_Inverted(a, model_dir_is_empty) ==
    model_dir_is_empty /\ ~a.continue_training

\* elif not model_dir_is_empty and not args.continue_training
StaleModelDir(a, model_dir_is_empty) ==
    ~model_dir_is_empty /\ ~a.continue_training

CheckSession ==
    /\ pc = "check_session"
    /\ IF ShouldPurge(args)
       THEN Goto("remove_previous_session")
       ELSE IF StaleModelDir(args, loc.model_dir_is_empty)
       THEN Raise("OSError", "check_session", "None")
       ELSE Goto("add_logging_file_handler")
    /\ UNCHANGED <<args, log, fs, fs0, loc, closed, outcome>>

\* remove_previous_session(project_dir): the model and log folders go.
RemovePreviousSession ==
    /\ pc = "remove_previous_session"
    /\ Goto("init_default_project_structure")
    /\ Log("remove_previous_session")
    /\ fs' = [fs EXCEPT !.model_dir_empty = TRUE, !.checkpoint = FALSE,
                        !.final_weights = FALSE, !.log_file = "none"]
    /\ UNCHANGED <<args, fs0, loc, closed, outcome>>

\* init_default_project_structure(project_dir): an empty layout is created.
InitDefaultProjectStructure ==
    /\ pc = "init_default_project_structure"
    /\ Goto("add_logging_file_handler")
    /\ Log("init_default_project_structure")
    /\ UNCHANGED <<args, fs, fs0, loc, closed, outcome>>

\* mode="w" if not args.continue_training else "a"
LogFileMode(a) == IF ~a.continue_training THEN "w" ELSE "a"

AddLoggingFileHandler ==
    /\ pc = "add_logging_file_handler"
    /\ Goto("select_strategy")
    /\ Log("add_logging_file_handler")
    /\ fs' = [fs EXCEPT !.log_file = LogFileMode(args)]
    /\ UNCHANGED <<args, fs0, loc, closed, outcome>>

\* ---------------------------------------------- run: --preprocessed settings
\* Variant: the validation queue type is not forced with --preprocessed.
PreprocessedSettings_ValNotForced(a) ==
    IF a.preprocessed
    THEN [yaml_path |-> PreProcessedHParamsPath,
          dataset_func |-> "get_h5_train_and_val_datasets",
          train_queue_type |-> "eager",
          val_queue_type |-> a.val_queue_type]
    ELSE [yaml_path |-> HParamsPath,
          dataset_func |-> "get_train_and_val_datasets",
          train_queue_type |-> a.train_queue_type,
          val_queue_type |-> a.val_queue_type]

\* The four settings that depend on the --preprocessed flag.
PreprocessedSettings(a) ==
    IF a.preprocessed
    THEN [yaml_path |-> PreProcessedHParamsPath,
          dataset_func |-> "get_h5_train_and_val_datasets",
          train_queue_type |-> "eager",
          val_queue_type |-> "eager"]
    ELSE [yaml_path |-> HParamsPath,
          dataset_func |-> "get_train_and_val_datasets",
          train_queue_type |-> a.train_queue_type,
          val_queue_type |-> a.val_queue_type]

SelectStrategy ==
    /\ pc = "select_strategy"
    /\ Goto("load_hparams")
    /\ LET s == PreprocessedSettings(args) IN
       loc' = [loc EXCEPT !.yaml_path = s.yaml_path,
                          !.dataset_func = s.dataset_func,
                          !.train_queue_type = s.train_queue_type,
                          !.val_queue_type = s.val_queue_type]
    /\ UNCHANGED <<args, log, fs, fs0, closed, outcome>>

\* hparams = YAMLHParams(yaml_path): the tree is read from the file.
LoadHParams ==
    /\ pc = "load_hparams"
    /\ Goto("update_n_epochs")
    /\ Log("YAMLHParams")
    /\ loc' = [loc EXCEPT !.hparams = fs.yaml[loc.yaml_path]]
    /\ UNCHANGED <<args, fs, fs0, closed, outcome>>

\* ------------------------------- update_hparams_with_command_line_arguments
\* if isinstance(args.n_epochs, int) and args.n_epochs > 0
NEpochsGiven(a) == ~IsNone(a.n_epochs) /\ Val(a.n_epochs) > 0

\* hparams.set_group("/fit/n_epochs", ...); hparams["fit"]["n_epochs"] = ...
SetNEpochs(h, a) ==
    IF NEpochsGiven(a) THEN [h EXCEPT !.n_epochs = a.n_epochs] ELSE h

UpdateNEpochs ==
    /\ pc = "update_n_epochs"
    /\ Goto("update_channels")
    /\ loc' = [loc EXCEPT !.hparams = SetNEpochs(loc.hparams, args)]
    /\ UNCHANGED <<args, log, fs, fs0, closed, outcome>>

\* if args.channels is not None and args.channels
ChannelsGiven(a) == TruthyList(a.channels)

\* get_all_dataset_hparams(hparams): one YAMLHParams per dataset, read from
\* the dataset's own file.  The loop is entered only with --channels.
UpdateChannels ==
    /\ pc = "update_channels"
    /\ IF ChannelsGiven(args) /\ NumDatasets > 0
       THEN /\ Goto("update_channels_loop")
            /\ loc' = [loc EXCEPT !.ds_hparams = fs.ds, !.ds_i = 1]
       ELSE /\ Goto("update_save")
            /\ loc' = loc
    /\ UNCHANGED <<args, log, fs, fs0, closed, outcome>>

\* Variant: the channel sampling groups are deleted but the channels not set.
SetChannels_DeleteOnly(dh, a) ==
    [dh EXCEPT !.channel_sampling_groups = FALSE]

\* dataset_hparams.set_group("select_channels", value=args.channels);
\* dataset_hparams.delete_group('channel_sampling_groups')
SetChannels(dh, a) ==
    [dh EXCEPT !.select_channels = a.channels,
               !.channel_sampling_groups = FALSE]

\* One iteration of the loop: set, delete, dataset_hparams.save_current().
UpdateChannelsLoop ==
    /\ pc = "update_channels_loop"
    /\ LET i == loc.ds_i
           dh == SetChannels(loc.ds_hparams[i], args)
       IN /\ loc' = [loc EXCEPT !.ds_hparams[i] = dh, !.ds_i = i + 1]
          /\ fs' = [fs EXCEPT !.ds[i] = dh]
          /\ Goto(IF i < NumDatasets THEN "update_channels_loop" ELSE "update_save")
    /\ Log("dataset_hparams.save_current")
    /\ UNCHANGED <<args, fs0, closed, outcome>>

\* hparams.save_current(): the tree in memory replaces the file's content.
SaveCurrent(disk, path, h) == [disk EXCEPT !.yaml[path] = h]

\* The last statement of update_hparams_with_command_line_arguments.
UpdateSave ==
    /\ pc = "update_save"
    /\ Goto("resolve_datasets")
    /\ Log("hparams.save_current@update")
    /\ fs' = SaveCurrent(fs, loc.yaml_path, loc.hparams)
    /\ UNCHANGED <<args, fs0, loc, closed, outcome>>

\* ------------------------------------------------------------ run: datasets
\* train_datasets, val_datasets = dataset_func(hparams, args.no_val,
\* args.train_on_val, args.datasets): one call resolves both splits.  The
\* validation collection is empty with --no_val or --train_on_val; an
\* allow-listed dataset that does not exist is an error.
ResolveDatasets ==
    /\ pc = "resolve_datasets"
    /\ Log("dataset_func")
    /\ \/ /\ Raise("UnknownDatasetError", "resolve_datasets", "datasets")
          /\ loc' = loc
       \/ \E no_val, train_on_val, just \in BOOLEAN :
            /\ Goto(IF just THEN "keep_n_random" ELSE "train_queues")
            /\ loc' = [loc EXCEPT !.train_strategy = loc.dataset_func,
                                  !.val_strategy = loc.dataset_func,
                                  !.val_datasets = ~(no_val \/ train_on_val)]
    /\ UNCHANGED <<args, fs, fs0, closed, outcome>>

\* if args.just: keep_n_random(*train_datasets, *val_datasets, keep=args.just)
KeepNRandom ==
    /\ pc = "keep_n_random"
    /\ Goto("train_queues")
    /\ Log("keep_n_random")
    /\ UNCHANGED <<args, fs, fs0, loc, closed, outcome>>

\* -------------------------------------------------------------- run: queues
\* get_data_queues: the error of the queue factory for a queue type and a
\* bound, "None" when the queues are built.
get_data_queues(queue_type, max_loaded_per_dataset) ==
    IF queue_type \notin ValidQueueTypes
    THEN "InvalidQueueType"
    ELSE IF queue_type = "limitation" /\ max_loaded_per_dataset <= 0
    THEN "InvalidBound"
    ELSE "None"

QueueFlag(e, which) ==
    IF e = "InvalidBound" THEN "max_loaded_per_dataset" ELSE which

BuildTrainQueues ==
    /\ pc = "train_queues"
    /\ Log("get_data_queues:train")
    /\ LET e == get_data_queues(loc.train_queue_type, args.max_loaded_per_dataset)
       IN IF e # "None"
          THEN /\ Raise(e, "train_queues", QueueFlag(e, "train_queue_type"))
               /\ loc' = loc
          ELSE /\ Goto("val_queues")
               /\ loc' = [loc EXCEPT !.train_queues = Some(loc.train_queue_type)]
    /\ UNCHANGED <<args, fs, fs0, closed, outcome>>

\* if val_datasets: val_dataset_queues = get_data_queues(...) else None
BuildValQueues ==
    /\ pc = "val_queues"
    /\ IF loc.val_datasets
       THEN /\ Log("get_data_queues:val")
            /\ LET e == get_data_queues(loc.val_queue_type, args.max_loaded_per_dataset)
               IN IF e # "None"
                  THEN /\ Raise(e, "val_queues", QueueFlag(e, "val_queue_type"))
                       /\ loc' = loc
                  ELSE /\ Goto("get_generators")
                       /\ loc' = [loc EXCEPT !.val_queues = Some(loc.val_queue_type)]
       ELSE /\ log' = log
            /\ loc' = loc
            /\ Goto("get_generators")
    /\ UNCHANGED <<args, fs, fs0, closed, outcome>>

\* ---------------------------------------------------------- run: generators
\* train_seq, val_seq = get_generators(...): the training sequence exposes
\* the inferred n_classes and batch_shape.
GetGenerators ==
    /\ pc = "get_generators"
    /\ Goto("build_hparams")
    /\ Log("get_generators")
    /\ \E n \in SeqClasses :
          loc' = [loc EXCEPT !.train_seq =
                      Some([n_classes |-> n, batch_shape |-> SeqBatchShape])]
    /\ UNCHANGED <<args, fs, fs0, closed, outcome>>

\* Variant: batch_shape is not written to the build group.
SetBuildGroup_NoBatchShape(h, seq) ==
    [h EXCEPT !.n_classes = Some(seq.n_classes)]

\* hparams.set_group("/build/n_classes", value=train_seq.n_classes);
\* hparams.set_group("/build/batch_shape", value=train_seq.batch_shape)
SetBuildGroup(h, seq) ==
    [h EXCEPT !.n_classes = Some(seq.n_classes),
              !.batch_shape = Some(seq.batch_shape)]

\* ... followed by hparams.save_current()
BuildHParams ==
    /\ pc = "build_hparams"
    /\ Goto("resume_or_fresh")
    /\ Log("hparams.save_current@build")
    /\ LET h == SetBuildGroup(loc.hparams, Val(loc.train_seq))
       IN /\ loc' = [loc EXCEPT !.hparams = h]
          /\ fs' = SaveCurrent(fs, loc.yaml_path, h)
    /\ UNCHANGED <<args, fs0, closed, outcome>>

\* ------------------------------------------------------ run: resume or fresh
\* Variant: the test is negated.
UseResume_Negated(a) == ~a.continue_training

\* if args.continue_training
UseResume(a) == a.continue_training

\* prepare_for_continued_training(hparams, project_dir): the most recent
\* checkpoint of the 'model' folder, an error if there is none.
prepare_for_continued_training(disk) ==
    IF disk.checkpoint THEN Some("checkpoint") ELSE None

ResumeOrFresh ==
    /\ pc = "resume_or_fresh"
    /\ IF UseResume(args)
       THEN /\ Log("prepare_for_continued_training")
            /\ LET f == prepare_for_continued_training(fs)
               IN IF IsNone(f)
                  THEN /\ Raise("NoCheckpointFound", "resume", "continue_training")
                       /\ loc' = loc
                  ELSE /\ Goto("set_gpus")
                       /\ loc' = [loc EXCEPT !.parameter_file = f]
       ELSE /\ log' = log
            /\ Goto("set_gpus")
            /\ loc' = [loc EXCEPT !.parameter_file = args.initialize_from]
    /\ UNCHANGED <<args, fs, fs0, closed, outcome>>

\* ------------------------------------------------------------- run: devices
\* num_gpus = find_and_set_gpus(...); gpus = list_physical_devices('GPU');
\* assert len(gpus) == num_gpus
SetGpus ==
    /\ pc = "set_gpus"
    /\ Log("find_and_set_gpus")
    /\ \E num_gpus, visible \in 0..MaxGpus :
          IF visible # num_gpus
          THEN Raise("AssertionError", "set_gpus", "num_gpus")
          ELSE Goto("init_model")
    /\ UNCHANGED <<args, fs, fs0, loc, closed, outcome>>

\* --------------------------------------------------------------- run: model
\* model = init_model(hparams["build"], clear_previous=False)
InitModel ==
    /\ pc = "init_model"
    /\ Goto(IF TruthyStr(loc.parameter_file) THEN "load_from_file" ELSE "compile_model")
    /\ Log("init_model")
    /\ loc' = [loc EXCEPT !.model = "built"]
    /\ UNCHANGED <<args, fs, fs0, closed, outcome>>

\* if parameter_file: load_from_file(model, parameter_file, by_name=True)
LoadFromFile ==
    /\ pc = "load_from_file"
    /\ Goto("compile_model")
    /\ Log("load_from_file")
    /\ loc' = [loc EXCEPT !.model = "loaded"]
    /\ UNCHANGED <<args, fs, fs0, closed, outcome>>

\* trainer = Trainer(model); trainer.compile_model(...)
CompileModel ==
    /\ pc = "compile_model"
    /\ Goto("fit")
    /\ Log("compile_model")
    /\ loc' = [loc EXCEPT !.model = "compiled"]
    /\ UNCHANGED <<args, fs, fs0, closed, outcome>>

\* trainer.fit(...): long running; it may raise, and when it returns the
\* checkpoint callback has left a checkpoint in the 'model' folder.
Fit ==
    /\ pc = "fit"
    /\ Log("fit")
    /\ \/ /\ Raise("FitError", "fit", "None")
          /\ UNCHANGED <<fs, loc>>
       \/ /\ Goto("save_final_weights")
          /\ loc' = [loc EXCEPT !.fit_done = TRUE]
          /\ fs' = [fs EXCEPT !.checkpoint = TRUE, !.model_dir_empty = FALSE]
    /\ UNCHANGED <<args, fs0, closed, outcome>>

\* save_final_weights(project_dir, model=model, file_name=...); run returns.
SaveFinalWeights ==
    /\ pc = "save_final_weights"
    /\ Log("save_final_weights")
    /\ \/ /\ Raise("OSError", "save_final_weights", "final_weights_file_name")
          /\ fs' = fs
       \/ /\ Goto("finally")
          /\ fs' = [fs EXCEPT !.final_weights = TRUE]
    /\ UNCHANGED <<args, fs0, loc, closed, outcome>>

\* -------------------------------------------------------- entry_func: finally
\* Variant: the exception of run() is swallowed.
Propagate_Swallows(e) == "success"

\* What the caller sees once the finally block ran: the exception of run()
\* is re-raised, a normal return of run() is a normal return.
Propagate(e) == IF e = NoError THEN "success" ELSE "failure"

\* finally: tables.file._open_files.close_all()
Finally ==
    /\ pc = "finally"
    /\ pc' = "exit"
    /\ Log("close_all")
    /\ closed' = closed + 1
    /\ outcome' = Propagate(err)
    /\ UNCHANGED <<args, err, fs, fs0, loc>>

Next ==
    \/ EntryFunc
    \/ AssertArgs
    \/ AssertProjectFolder
    \/ CheckSession
    \/ RemovePreviousSession
    \/ InitDefaultProjectStructure
    \/ AddLoggingFileHandler
    \/ SelectStrategy
    \/ LoadHParams
    \/ UpdateNEpochs
    \/ UpdateChannels
    \/ UpdateChannelsLoop
    \/ UpdateSave
    \/ ResolveDatasets
    \/ KeepNRandom
    \/ BuildTrainQueues
    \/ BuildValQueues
    \/ GetGenerators
    \/ BuildHParams
    \/ ResumeOrFresh
    \/ SetGpus
    \/ InitModel
    \/ LoadFromFile
    \/ CompileModel
    \/ Fit
    \/ SaveFinalWeights
    \/ Finally

Spec == Init /\ [][Next]_vars

\* ===================================================================== claims
\* The calls that change the project directory.
MutatingCalls ==
    {"remove_previous_session", "init_default_project_structure",
     "add_logging_file_handler", "dataset_hparams.save_current",
     "hparams.save_current@update", "hparams.save_current@build",
     "save_final_weights"}

\* Nothing on disk was touched by this run.
NothingMutated ==
    /\ fs = fs0
    /\ \A e \in MutatingCalls : ~Called(e)

Stopped == pc \in {"finally", "exit"}

ConflictingMode ==
    args.continue_training /\ ~IsNone(args.initialize_from)

\* C1: with --continue_training and --initialize_from both set, run() fails
\* in assert_args, and at no point of such an execution has the project
\* directory been touched: no session removal, no project structure, no log
\* file handler, no hyperparameter save.
C1_ConflictFailsBeforeMutation ==
    ConflictingMode =>
        /\ NothingMutated
        /\ pc \in {"entry_func", "assert_args", "finally", "exit"}
        /\ Stopped => err = [cls |-> "ValueError", stage |-> "assert_args",
                             flag |-> "initialize_from"]
        /\ pc = "exit" => outcome = "failure"

C1_Witness ==
    /\ ConflictingMode
    /\ pc = "exit"
    /\ err.stage = "assert_args"
    /\ err.flag = "initialize_from"
    /\ args.overwrite

\* C2: whenever run() was entered, and whichever stage raised (or none),
\* close_all() is called exactly once, as the last call, after the pipeline
\* stopped, and the caller sees the error of run() (failure) or its normal
\* return (success).  Before the pipeline stops nothing is closed, an
\* exception always leads to the finally block, and no execution is stuck
\* before it has left entry_func.
C2_CleanupUnconditional ==
    /\ pc = "exit" =>
        /\ closed = 1
        /\ Count("close_all") = 1
        /\ log[Len(log)] = "close_all"
        /\ Called("run")
        /\ (err # NoError) <=> (outcome = "failure")
        /\ (err = NoError) <=> (outcome = "success")
    /\ pc # "exit" =>
        /\ closed = 0
        /\ ~Called("close_all")
        /\ outcome = "running"
        /\ ENABLED Next
    /\ err # NoError => Stopped

C2_Witness ==
    /\ pc = "exit"
    /\ closed = 1
    /\ err.stage = "fit"
    /\ outcome = "failure"

\* The stages of the pipeline in the order the specification gives them;
\* "prepare_for_continued_training" (resume) and "load_from_file" are the
\* optional ones.
StageOrder ==
    <<"dataset_func", "get_data_queues:train", "get_generators",
      "hparams.save_current@build", "prepare_for_continued_training",
      "init_model", "load_from_file", "compile_model", "fit",
      "save_final_weights">>
OptionalStages == {"prepare_for_continued_training", "load_from_file"}

IsStage(e) == \E k \in 1..Len(StageOrder) : StageOrder[k] = e
Rank(e) == CHOOSE k \in 1..Len(StageOrder) : StageOrder[k] = e

\* C3: the stages run in the fixed order of StageOrder, none twice, the
\* first one first and none without every mandatory earlier one; validation
\* queues, when built, come right after the training queues and before the
\* generators; and init_model is called only once the training generator
\* exists and its n_classes and batch_shape are in the build group, in
\* memory and in the saved file.
C3_LinearStageOrder ==
    LET st == SelectSeq(log, IsStage) IN
    /\ Len(st) > 0 => st[1] = StageOrder[1]
    /\ \A i \in 1..(Len(st) - 1) :
         /\ Rank(st[i]) < Rank(st[i + 1])
         /\ \A k \in (Rank(st[i]) + 1)..(Rank(st[i + 1]) - 1) :
               StageOrder[k] \in OptionalStages
    /\ \A i \in 1..Len(log) :
         /\ log[i] = "get_data_queues:val" =>
               (i > 1 /\ log[i - 1] = "get_data_queues:train")
         /\ log[i] = "get_generators" =>
               (i > 1 /\ log[i - 1] \in {"get_data_queues:train",
                                         "get_data_queues:val"})
    /\ Called("init_model") =>
         /\ ~IsNone(loc.train_seq)
         /\ loc.hparams.n_classes = Some(Val(loc.train_seq).n_classes)
         /\ loc.hparams.batch_shape = Some(Val(loc.train_seq).batch_shape)
         /\ fs.yaml[loc.yaml_path].n_classes = Some(Val(loc.train_seq).n_classes)
         /\ fs.yaml[loc.yaml_path].batch_shape = Some(Val(loc.train_seq).batch_shape)

C3_Witness ==
    /\ pc = "exit"
    /\ outcome = "success"
    /\ Called("get_data_queues:val")
    /\ Called("prepare_for_continued_training")
    /\ Called("load_from_file")
    /\ Len(log) >= 16

NoCheckpointAtStart == args.continue_training /\ ~fs0.checkpoint

\* C4 as stated: with --continue_training and no checkpoint the run fails
\* before any data queue is constructed.
C4_Original_FailsBeforeQueues ==
    NoCheckpointAtStart =>
        /\ ~Called("get_data_queues:train")
        /\ ~Called("get_data_queues:val")

\* C4 as amended: with --continue_training and no checkpoint the run never
\* builds a model and never succeeds; NoCheckpointFound is raised by the
\* resume stage, which comes after the training queues, the generators and
\* the save of the build group, and it is raised in no other kind of run.
C4_NoCheckpointFailsAtResume ==
    /\ NoCheckpointAtStart =>
        /\ ~Called("init_model")
        /\ loc.model = "none"
        /\ outcome # "success"
        /\ Called("prepare_for_continued_training") =>
              (Stopped /\ err.cls = "NoCheckpointFound")
    /\ err.cls = "NoCheckpointFound" =>
        /\ NoCheckpointAtStart
        /\ err.stage = "resume"
        /\ Called("get_data_queues:train")
        /\ ~IsNone(loc.train_queues)
        /\ Called("get_generators")
        /\ Called("hparams.save_current@build")
        /\ log[Len(log) - (IF pc = "exit" THEN 1 ELSE 0)]
              = "prepare_for_continued_training"

C4_Witness ==
    /\ NoCheckpointAtStart
    /\ err.cls = "NoCheckpointFound"
    /\ pc = "exit"
    /\ Called("get_data_queues:val")

\* The flags an invalid numeric bound or a conflicting mode is reported for.
ConfigurationFlags ==
    {"initialize_from", "max_train_samples_per_epoch", "n_epochs",
     "max_loaded_per_dataset"}

InvalidForAssertArgs ==
    \/ ConflictingMode
    \/ args.max_train_samples_per_epoch < 1
    \/ (~IsNone(args.n_epochs) /\ Val(args.n_epochs) < 1)

C6_PurgeIffOverwriteWithoutContinue ==
    LET purge == args.overwrite /\ ~args.continue_training IN
    /\ Called("remove_previous_session") => purge
    /\ Called("init_default_project_structure") =>
          (purge /\ Before("remove_previous_session",
                           "init_default_project_structure")
                 /\ Called("remove_previous_session"))
    /\ Called("add_logging_file_handler") =>
          /\ Called("remove_previous_session") <=> purge
          /\ Called("init_default_project_structure") <=> purge
    /\ (args.overwrite /\ args.continue_training) =>
          /\ err.stage # "check_session"
          /\ pc \notin {"remove_previous_session", "init_default_project_structure"}
          /\ fs0.checkpoint => fs.checkpoint
          /\ ~fs0.model_dir_empty => ~fs.model_dir_empty

C6_Witness ==
    /\ args.overwrite
    /\ args.continue_training
    /\ fs0.checkpoint
    /\ Called("add_logging_file_handler")
    /\ pc = "exit"
    /\ outcome = "success"

StaleAtStart ==
    ~fs0.model_dir_empty /\ ~args.overwrite /\ ~args.continue_training

\* C7: with files in the model folder and neither --overwrite nor
\* --continue_training the run is fatal: it stops no later than the check
\* of the model folder, so the hyperparameter store is never loaded or
\* saved, no dataset is resolved, no queue, generator or model is built, and
\* the project directory is as it was.
C7_StaleModelDirIsFatal ==
    StaleAtStart =>
        /\ pc \in {"entry_func", "assert_args", "assert_project_folder",
                   "check_session", "finally", "exit"}
        /\ Stopped =>
              /\ err # NoError
              /\ err.stage \in {"assert_args", "assert_project_folder",
                                "check_session"}
        /\ pc = "exit" => outcome = "failure"
        /\ fs = fs0
        /\ loc.hparams = InitialLocals.hparams
        /\ loc.model = "none"
        /\ \A e \in {"YAMLHParams", "hparams.save_current@update",
                     "dataset_hparams.save_current", "dataset_func",
                     "get_data_queues:train", "get_data_queues:val",
                     "get_generators", "init_model"} \cup MutatingCalls :
              ~Called(e)

C7_Witness ==
    /\ StaleAtStart
    /\ pc = "exit"
    /\ err.cls = "OSError"
    /\ err.stage = "check_session"
    /\ fs0.checkpoint

\* The fatal error classes: configuration, project state, queue, device.
FatalClasses ==
    {"ValueError", "ProjectNotInitialized", "NoCheckpointFound",
     "InvalidQueueType", "InvalidBound", "AssertionError"}
IsFatal(e) ==
    \/ e.cls \in FatalClasses
    \/ (e.cls = "OSError" /\ e.stage = "check_session")

\* C8: the caller sees success only if save_final_weights completed, after
\* a completed fit and without any error; a run with a configuration,
\* project-state, queue or device error has neither completed fit nor saved
\* final weights and ends in failure; and the stage that failed is the last
\* call of run(), no stage being called twice.
C8_SuccessOnlyAfterSaveWeights ==
    /\ outcome = "success" =>
        /\ err = NoError
        /\ loc.fit_done
        /\ fs.final_weights
        /\ log[Len(log) - 1] = "save_final_weights"
    /\ IsFatal(err) =>
        /\ ~loc.fit_done
        /\ ~fs.final_weights
        /\ ~Called("save_final_weights")
        /\ outcome # "success"
        /\ pc = "exit" => outcome = "failure"
    /\ (err # NoError /\ pc = "exit") => outcome = "failure"
    /\ \A i, j \in 1..Len(log) :
         (i < j /\ log[i] = log[j]) => log[i] = "dataset_hparams.save_current"

C8_Witness ==
    /\ pc = "exit"
    /\ err.cls = "AssertionError"
    /\ outcome = "failure"
    /\ Called("get_generators")

\* C9: with --preprocessed every queue that is built is an 'eager' one,
\* whatever the queue type flags say, and both splits come from the
\* pre-processed store; without it the queues have exactly the types of
\* --train_queue_type and --val_queue_type and both splits are loaded
\* directly.  The two splits never use different strategies.
C9_PreprocessedForcesEager ==
    LET want_train == IF args.preprocessed THEN "eager" ELSE args.train_queue_type
        want_val == IF args.preprocessed THEN "eager" ELSE args.val_queue_type
        want_func == IF args.preprocessed
                     THEN "get_h5_train_and_val_datasets"
                     ELSE "get_train_and_val_datasets"
    IN
    /\ ~IsNone(loc.train_queues) => loc.train_queues = Some(want_train)
    /\ ~IsNone(loc.val_queues) => loc.val_queues = Some(want_val)
    /\ err.stage = "train_queues" => get_data_queues(want_train, args.max_loaded_per_dataset) = err.cls
    /\ err.stage = "val_queues" => get_data_queues(want_val, args.max_loaded_per_dataset) = err.cls
    /\ Called("dataset_func") => loc.dataset_func = want_func
    /\ loc.train_strategy # "unset" =>
          (loc.train_strategy = want_func /\ loc.val_strategy = want_func)
    /\ loc.train_strategy = loc.val_strategy

C9_Witness ==
    /\ args.preprocessed
    /\ args.train_queue_type = "bogus"
    /\ args.val_queue_type = "limitation"
    /\ args.max_loaded_per_dataset = 0
    /\ loc.train_queues = Some("eager")
    /\ loc.val_queues = Some("eager")
    /\ loc.val_strategy = "get_h5_train_and_val_datasets"

\* C10: once update_hparams_with_command_line_arguments has made its
\* top-level save (it always does before datasets are resolved): with a
\* non-empty --channels every per-dataset configuration, in memory and in
\* its file, selects exactly these channels, one save per dataset, all
\* before the top-level save; with a positive --n_epochs the tree in memory
\* and the saved file hold that number of epochs.
C10_UpdateHParamsPersists ==
    LET top == "hparams.save_current@update" IN
    /\ Called("dataset_func") => Called(top)
    /\ pc = "resolve_datasets" => log[Len(log)] = top
    /\ Called(top) =>
        /\ (~IsNone(args.channels) /\ Val(args.channels) # <<>>) =>
              /\ \A i \in 1..NumDatasets :
                    /\ loc.ds_hparams[i].select_channels = args.channels
                    /\ fs.ds[i].select_channels = args.channels
              /\ Count("dataset_hparams.save_current") = NumDatasets
              /\ Before("dataset_hparams.save_current", top)
        /\ (~IsNone(args.n_epochs) /\ Val(args.n_epochs) > 0) =>
              /\ loc.hparams.n_epochs = args.n_epochs
              /\ fs.yaml[loc.yaml_path].n_epochs = args.n_epochs

C10_Witness ==
    /\ Called("hparams.save_current@update")
    /\ args.channels = Some(<<"C3-A2">>)
    /\ args.n_epochs = Some(1)
    /\ fs.ds[NumDatasets].select_channels = Some(<<"C3-A2">>)
    /\ fs.yaml[loc.yaml_path].n_epochs = Some(1)
    /\ pc = "resolve_datasets"

====
